---- MODULE Spec2Model ----
(***************************************************************************)
(* Lazy-fetch resource stores of Site Kit: the modules/analytics profiles  *)
(* store (getProfiles resolver, createProfile action) and the core/user    *)
(* authentication store, on top of the fetch store and the registry's      *)
(* resolver bookkeeping; and the SettingsEdit component of modules/adsense *)
(* with the effects it registers.                                           *)
(*                                                                         *)
(* A JavaScript optional value is a sequence of length 0 (undefined) or 1. *)
(* A JavaScript object used as a map is a function whose DOMAIN is the set *)
(* of keys present.                                                         *)
(***************************************************************************)
EXTENDS Integers, Sequences, FiniteSets, TLC

VARIABLES
    store,           \* the store this registry run exercises
    profiles,        \* state.profiles: propertyID -> list of profiles
    isFetching,      \* state.isFetching<BaseName>: fetch key -> boolean
    error,           \* state.error
    profileID,       \* the selected profile ID (settings part of the store)
    authentication,  \* core/user state.authentication
    resolution,      \* registry metadata: resolver key -> started / finished
    inFlight,        \* network requests in flight, per fetch key
    waiters,         \* action callers awaiting the pending fetch of a key
    netCount,        \* network requests issued so far, per fetch key
    unmounted,       \* resolver keys whose reading component has been unmounted
    haveSettingsChanged,   \* modules/adsense: select( STORE_NAME ).haveSettingsChanged()
    isDoingSubmitChanges,  \* modules/adsense: select( STORE_NAME ).isDoingSubmitChanges()
    mounted,         \* SettingsEdit is mounted
    rendered,        \* the values of the last render of SettingsEdit, which the
                     \* cleanup of its rollback effect closes over
    filters,         \* handlers registered on 'googlekit.SettingsConfirmed' under
                     \* the namespace 'googlekit.AdSenseSettingsConfirmed'
    handler,         \* the call of that handler which awaits submitChanges()
    outcome,         \* what the call or response of the step just taken yielded
    hist             \* history: keys preloaded at their first read, keys explicitly
                     \* re-fetched, keys a response was merged into, keys whose fetch
                     \* has failed, keys for which the caller has started a fetch cycle
                     \* since their last failure, calls made

vars == <<store, profiles, isFetching, error, profileID, authentication, resolution,
          inFlight, waiters, netCount, unmounted, haveSettingsChanged,
          isDoingSubmitChanges, mounted, rendered, filters, handler, outcome, hist>>

\* The state the data stores leave alone: SettingsEdit and its store.
settingsEdit == <<haveSettingsChanged, isDoingSubmitChanges, mounted, rendered,
                  filters, handler>>

\* The state SettingsEdit and its store leave alone.
dataStores == <<profiles, isFetching, error, profileID, authentication, resolution,
                inFlight, waiters, netCount, unmounted, hist>>

-----------------------------------------------------------------------------
(* Bounds *)

\* The number of state-changing calls the application makes in one run: first
\* reads of a selector, dispatched actions, invalidations.
MaxCalls == 3

\* The same number in the runs checked for liveness.
MaxFairCalls == 2

-----------------------------------------------------------------------------
(* Values *)

Undefined == <<>>
Some(x) == <<x>>
IsDefined(o) == o # <<>>
Get(o) == o[1]

ValidPropertyIDs == {"UA-1-1", "UA-2-1"}
InvalidPropertyIDs == {"bad"}
PropertyIDs == ValidPropertyIDs \cup InvalidPropertyIDs

ValidProfileNames == {"All Web Site Data"}
InvalidProfileNames == {""}
ProfileNames == ValidProfileNames \cup InvalidProfileNames

P1 == [id |-> "p1"]
P2 == [id |-> "p2"]
P3 == [id |-> "p3"]

ProfilesResponses == {<<>>, <<P1, P2>>}
CreateProfileResponses == {P3}

grantedScope == "https://www.googleapis.com/auth/granted.scope"
ungrantedScope == "https://www.googleapis.com/auth/ungranted.scope"

coreUserDataExpectedResponse ==
    [authenticated |-> TRUE, requiredScopes |-> <<>>, grantedScopes |-> <<>>,
     unsatisfiedScopes |-> <<>>]
grantedScopeResponse ==
    [authenticated |-> TRUE, requiredScopes |-> <<>>, grantedScopes |-> <<grantedScope>>,
     unsatisfiedScopes |-> <<>>]
\* A response of a user who must grant a scope again.
reauthenticationResponse ==
    [authenticated |-> FALSE, requiredScopes |-> <<grantedScope>>, grantedScopes |-> <<>>,
     unsatisfiedScopes |-> <<grantedScope>>, needsReauthentication |-> TRUE]
AuthenticationResponses ==
    {coreUserDataExpectedResponse, grantedScopeResponse, reauthenticationResponse}

Scopes == {grantedScope, ungrantedScope}

internalServerError ==
    [code |-> "internal_server_error", message |-> "Internal server error",
     data |-> [status |-> 500]]
Errors == {internalServerError}

PROFILE_CREATE == "profile_create"

SelectableProfileIDs == {"p2"}

isValidPropertyID(propertyID) == propertyID \in ValidPropertyIDs
isValidProfileName(profileName) == profileName \in ValidProfileNames

CORE_USER == "core/user"
MODULES_ANALYTICS == "modules/analytics"
MODULES_ADSENSE == "modules/adsense"

-----------------------------------------------------------------------------
(* Keys *)

AuthKey == <<"getAuthentication">>
ProfilesKey(propertyID) == <<"getProfiles", propertyID>>
CreateKey(propertyID, profileName) == <<"createProfile", propertyID, profileName>>

ProfilesKeys == {ProfilesKey(p) : p \in PropertyIDs}
CreateKeys == {CreateKey(p, n) : p \in PropertyIDs, n \in ProfileNames}
FetchKeys == {AuthKey} \cup ProfilesKeys \cup CreateKeys
ResolverKeys == {AuthKey} \cup ProfilesKeys

BaseName(key) == key[1]

StoreOf(key) == IF BaseName(key) = "getAuthentication" THEN CORE_USER ELSE MODULES_ANALYTICS

\* argsToParams without its invariant on the property ID.
ParamsValidUnchecked(key) ==
    CASE BaseName(key) = "getAuthentication" -> TRUE
      [] BaseName(key) = "getProfiles" -> TRUE
      [] BaseName(key) = "createProfile" -> isValidProfileName(key[3])

\* argsToParams of each fetch store: TRUE when the invariants pass.
ParamsValid(key) ==
    CASE BaseName(key) = "getAuthentication" -> TRUE
      [] BaseName(key) = "getProfiles" -> isValidPropertyID(key[2])
      [] BaseName(key) = "createProfile" ->
            isValidPropertyID(key[2]) /\ isValidProfileName(key[3])

Responses(key) ==
    CASE BaseName(key) = "getAuthentication" -> AuthenticationResponses
      [] BaseName(key) = "getProfiles" -> ProfilesResponses
      [] BaseName(key) = "createProfile" -> CreateProfileResponses

-----------------------------------------------------------------------------
(* Selectors *)

\* An isDoingGetProfiles that asks isFetchingGetProfiles without the property ID.
isDoingGetProfilesNoArgument(propertyID) ==
    <<"getProfiles">> \in DOMAIN isFetching /\ isFetching[<<"getProfiles">>]

\* A getProfiles that answers an empty list for a property it holds nothing for.
getProfilesDefaultingToEmpty(propertyID) ==
    IF propertyID \in DOMAIN profiles THEN Some(profiles[propertyID]) ELSE Some(<<>>)

\* baseSelectors.getProfiles: state.profiles[ propertyID ]
getProfiles(propertyID) ==
    IF propertyID \in DOMAIN profiles THEN Some(profiles[propertyID]) ELSE Undefined

getAuthentication == authentication

\* const { field } = select( STORE_NAME ).getAuthentication() || {};
Field(info, field) ==
    IF IsDefined(info) /\ field \in DOMAIN Get(info) THEN Some(Get(info)[field])
    ELSE Undefined

isAuthenticated == Field(getAuthentication, "authenticated")
getGrantedScopes == Field(getAuthentication, "grantedScopes")
getRequiredScopes == Field(getAuthentication, "requiredScopes")
getUnsatisfiedScopes == Field(getAuthentication, "unsatisfiedScopes")
needsReauthentication == Field(getAuthentication, "needsReauthentication")

\* A hasScope that answers false for a user whose scopes are not loaded.
hasScopeDefaultingToFalse(scope) ==
    Some(IsDefined(getGrantedScopes)
            /\ \E i \in DOMAIN Get(getGrantedScopes) : Get(getGrantedScopes)[i] = scope)

\* hasScope( scope ): undefined until the granted scopes are loaded, then
\* whether they include the scope.
hasScope(scope) ==
    IF ~IsDefined(getGrantedScopes) THEN Undefined
    ELSE Some(\E i \in DOMAIN Get(getGrantedScopes) : Get(getGrantedScopes)[i] = scope)

\* The calls of the selectors derived from the authentication info.
DerivedCalls ==
    {<<name>> : name \in {"isAuthenticated", "getGrantedScopes", "getRequiredScopes",
                          "getUnsatisfiedScopes", "needsReauthentication"}}
        \cup {<<"hasScope", scope>> : scope \in Scopes}

DerivedValue(call) ==
    CASE call[1] = "isAuthenticated" -> isAuthenticated
      [] call[1] = "getGrantedScopes" -> getGrantedScopes
      [] call[1] = "getRequiredScopes" -> getRequiredScopes
      [] call[1] = "getUnsatisfiedScopes" -> getUnsatisfiedScopes
      [] call[1] = "needsReauthentication" -> needsReauthentication
      [] call[1] = "hasScope" -> hasScope(call[2])

getError == error

getProfileID == profileID

\* isFetching<BaseName>( ...args ): !! state.isFetching<BaseName>[ params ]
IsFetchingKey(key) == key \in DOMAIN isFetching /\ isFetching[key]

isFetchingGetProfiles(propertyID) == IsFetchingKey(ProfilesKey(propertyID))

isDoingGetProfiles(propertyID) == isFetchingGetProfiles(propertyID)

\* An isDoingCreateProfile that asks every request to be in progress.
isDoingCreateProfileEvery ==
    /\ \E key \in DOMAIN isFetching : BaseName(key) = "createProfile"
    /\ \A key \in DOMAIN isFetching : BaseName(key) = "createProfile" => isFetching[key]

\* Object.values( state.isFetchingCreateProfile ).some( Boolean )
isDoingCreateProfile ==
    \E key \in DOMAIN isFetching : BaseName(key) = "createProfile" /\ isFetching[key]

hasStartedResolution(key) == key \in DOMAIN resolution
hasFinishedResolution(key) == key \in DOMAIN resolution /\ resolution[key] = "finished"

-----------------------------------------------------------------------------
(* Helpers on maps *)

Put(f, k, v) == [x \in DOMAIN f \cup {k} |-> IF x = k THEN v ELSE f[x]]
Drop(f, k) == [x \in DOMAIN f \ {k} |-> f[x]]

-----------------------------------------------------------------------------
(* Reducers *)

\* A reducer that adds the response to the list instead of replacing the list.
ReduceGetProfilesMerging(stateProfiles, response, propertyID) ==
    Put(stateProfiles, propertyID,
        (IF propertyID \in DOMAIN stateProfiles THEN stateProfiles[propertyID] ELSE <<>>)
            \o response)

\* fetchGetProfilesStore.reducerCallback
ReduceGetProfiles(stateProfiles, response, propertyID) ==
    Put(stateProfiles, propertyID, response)

\* A reducer that forgets the profiles the list already holds.
ReduceCreateProfileOverwriting(stateProfiles, profile, propertyID) ==
    Put(stateProfiles, propertyID, <<profile>>)

\* fetchCreateProfileStore.reducerCallback
ReduceCreateProfile(stateProfiles, profile, propertyID) ==
    Put(stateProfiles, propertyID,
        Append(IF propertyID \in DOMAIN stateProfiles
               THEN stateProfiles[propertyID] ELSE <<>>, profile))

-----------------------------------------------------------------------------
(* Fetch store: fetch<BaseName>, its reducer and its control *)

\* A fetch action that issues a request for every call.
FetchIssueEveryCall(key, byResolver) ==
    /\ isFetching' = Put(isFetching, key, TRUE)
    /\ inFlight' = [inFlight EXCEPT ![key] = @ + 1]
    /\ netCount' = [netCount EXCEPT ![key] = @ + 1]
    /\ waiters' = [waiters EXCEPT ![key] = IF byResolver THEN @ ELSE @ + 1]

\* fetch<BaseName>( ...args ) with valid params, up to the network boundary.
\* A call for a key whose request is pending joins that request; otherwise
\* START_FETCH marks the key and the control issues one network request.
FetchIssue(key, byResolver) ==
    IF IsFetchingKey(key)
    THEN /\ waiters' = [waiters EXCEPT ![key] = IF byResolver THEN @ ELSE @ + 1]
         /\ UNCHANGED <<isFetching, inFlight, netCount>>
    ELSE /\ isFetching' = Put(isFetching, key, TRUE)
         /\ inFlight' = [inFlight EXCEPT ![key] = @ + 1]
         /\ netCount' = [netCount EXCEPT ![key] = @ + 1]
         /\ waiters' = [waiters EXCEPT ![key] = IF byResolver THEN 0 ELSE 1]

Threw(name, key) == Some([action |-> name, key |-> key, status |-> "threw"])
Pending(name, key) == Some([action |-> name, key |-> key, status |-> "pending"])

\* fetch<BaseName>( ...args ) as an action a caller dispatches: argsToParams
\* throws on invalid arguments before anything else happens.
FetchAction(name, key) ==
    IF ~ParamsValid(key)
    THEN /\ outcome' = Threw(name, key)
         /\ UNCHANGED <<isFetching, inFlight, waiters, netCount>>
    ELSE /\ FetchIssue(key, FALSE)
         /\ outcome' = Pending(name, key)

\* RECEIVE_<BASENAME>: the store's reducerCallback applied to the response.
Receive(key, response) ==
    CASE BaseName(key) = "getAuthentication" ->
            /\ authentication' = Some(response)
            /\ UNCHANGED profiles
      [] BaseName(key) = "getProfiles" ->
            /\ profiles' = ReduceGetProfiles(profiles, response, key[2])
            /\ UNCHANGED authentication
      [] BaseName(key) = "createProfile" ->
            /\ profiles' = ReduceCreateProfile(profiles, response, key[2])
            /\ UNCHANGED authentication

\* A reducer that drops the error of a failed request.
CatchFetchDropping(stateError, failure) == stateError

\* CATCH_FETCH_<BASENAME>: the error the reducer leaves in state.
CatchFetch(stateError, failure) == Some(failure)

\* The cache entry a response of a fetch key is merged into.
WrittenKey(key) ==
    IF BaseName(key) = "getAuthentication" THEN AuthKey ELSE ProfilesKey(key[2])

\* What fetch<BaseName> returns once the request has settled.
FetchResult(ok, body) ==
    [response |-> IF ok THEN Some(body) ELSE Undefined,
     error |-> IF ok THEN Undefined ELSE Some(body)]

-----------------------------------------------------------------------------
(* Actions and resolvers of the stores *)

\* A createProfile that returns the response alone.
CreateProfileResultNoError(fetched) == [response |-> fetched.response, error |-> Undefined]

\* baseActions.createProfile: what it returns from the fetch action's result.
CreateProfileResult(fetched) == [response |-> fetched.response, error |-> fetched.error]

\* What the callers awaiting a settled fetch are handed.
ActionResult(key, fetched) ==
    IF BaseName(key) = "createProfile" THEN CreateProfileResult(fetched) ELSE fetched

Truthy(o) == IsDefined(o) /\ Get(o) # ""

\* A resolver whose guard is inverted: it fetches only when profiles are there.
ResolverNeedsFetchInverted(profilesOpt) == IsDefined(profilesOpt)

\* A resolver with no guard: it fetches whatever the state holds.
ResolverNeedsFetchAlways(profilesOpt) == TRUE

\* baseResolvers.getProfiles: "Only fetch profiles if there are none received".
ResolverNeedsFetch(profilesOpt) == ~IsDefined(profilesOpt)

\* A resolver that selects a profile whatever is selected already.
ResolverProfileIDOverwriting(profilesOpt, currentProfileID) ==
    IF IsDefined(profilesOpt)
    THEN Some(IF Len(Get(profilesOpt)) > 0 THEN Get(profilesOpt)[1].id ELSE PROFILE_CREATE)
    ELSE currentProfileID

\* baseResolvers.getProfiles, once the profiles are known: the profile ID it
\* leaves selected.
ResolverProfileID(profilesOpt, currentProfileID) ==
    IF IsDefined(profilesOpt) /\ ~Truthy(currentProfileID)
    THEN LET list == Get(profilesOpt)
             profile == IF Len(list) > 0 THEN list[1] ELSE [id |-> PROFILE_CREATE]
         IN  Some(profile.id)
    ELSE currentProfileID

\* A resolver without its early return for an invalid property ID.
getProfilesResolverUnguarded(propertyID) ==
    IF ResolverNeedsFetch(getProfiles(propertyID))
    THEN /\ FetchIssue(ProfilesKey(propertyID), TRUE)
         /\ resolution' = Put(resolution, ProfilesKey(propertyID), "started")
         /\ UNCHANGED profileID
    ELSE /\ profileID' = ResolverProfileID(getProfiles(propertyID), getProfileID)
         /\ resolution' = Put(resolution, ProfilesKey(propertyID), "finished")
         /\ UNCHANGED <<isFetching, inFlight, waiters, netCount>>

\* baseResolvers.getProfiles, from its start to the network boundary or its end.
getProfilesResolver(propertyID) ==
    LET key == ProfilesKey(propertyID) IN
    IF ~isValidPropertyID(propertyID)
    THEN /\ resolution' = Put(resolution, key, "finished")
         /\ UNCHANGED <<profileID, isFetching, inFlight, waiters, netCount>>
    ELSE IF ResolverNeedsFetch(getProfiles(propertyID))
    THEN /\ FetchIssue(key, TRUE)
         /\ resolution' = Put(resolution, key, "started")
         /\ UNCHANGED profileID
    ELSE /\ profileID' = ResolverProfileID(getProfiles(propertyID), getProfileID)
         /\ resolution' = Put(resolution, key, "finished")
         /\ UNCHANGED <<isFetching, inFlight, waiters, netCount>>

\* resolvers.getAuthentication of core/user.
getAuthenticationResolver ==
    IF ~IsDefined(getAuthentication)
    THEN /\ FetchIssue(AuthKey, TRUE)
         /\ resolution' = Put(resolution, AuthKey, "started")
    ELSE /\ resolution' = Put(resolution, AuthKey, "finished")
         /\ UNCHANGED <<isFetching, inFlight, waiters, netCount>>

\* The rest of a resolver once its fetch has returned { response, error }.
ResolverResume(key, fetched) ==
    IF key \in DOMAIN resolution /\ resolution[key] = "started"
    THEN /\ resolution' = Put(resolution, key, "finished")
         /\ profileID' = IF BaseName(key) = "getProfiles"
                         THEN ResolverProfileID(fetched.response, getProfileID)
                         ELSE profileID
    ELSE UNCHANGED <<resolution, profileID>>

-----------------------------------------------------------------------------
(* Operations *)

CanCall == hist.calls < MaxCalls

Called == [hist EXCEPT !.calls = @ + 1]

\* The first read of a key notes whether its data was already in state.
NoteRead(key, preloaded) ==
    IF hasStartedResolution(key) THEN hist
    ELSE [hist EXCEPT !.calls = @ + 1,
                      !.preloaded = IF preloaded THEN @ \cup {key} ELSE @]

\* registry.select( STORE_NAME ).getProfiles( propertyID )
SelectGetProfiles(propertyID) ==
    /\ store = MODULES_ANALYTICS
    /\ hasStartedResolution(ProfilesKey(propertyID)) \/ CanCall
    /\ hist' = NoteRead(ProfilesKey(propertyID), propertyID \in DOMAIN profiles)
    /\ IF hasStartedResolution(ProfilesKey(propertyID))
       THEN UNCHANGED <<profileID, resolution, isFetching, inFlight, waiters, netCount>>
       ELSE getProfilesResolver(propertyID)
    /\ outcome' = Undefined
    /\ UNCHANGED <<store, profiles, error, authentication>>
    /\ UNCHANGED <<unmounted, settingsEdit>>

\* A read that runs the resolver every time, whatever the registry has resolved.
SelectGetAuthenticationRetrying ==
    /\ store = CORE_USER
    /\ hasStartedResolution(AuthKey) \/ CanCall
    /\ hist' = NoteRead(AuthKey, IsDefined(authentication))
    /\ getAuthenticationResolver
    /\ outcome' = Undefined
    /\ UNCHANGED <<store, profiles, error, authentication, profileID>>
    /\ UNCHANGED <<unmounted, settingsEdit>>

\* registry.select( STORE_NAME ).getAuthentication()
SelectGetAuthentication ==
    /\ store = CORE_USER
    /\ hasStartedResolution(AuthKey) \/ CanCall
    /\ hist' = NoteRead(AuthKey, IsDefined(authentication))
    /\ IF hasStartedResolution(AuthKey)
       THEN UNCHANGED <<resolution, isFetching, inFlight, waiters, netCount>>
       ELSE getAuthenticationResolver
    /\ outcome' = Undefined
    /\ UNCHANGED <<store, profiles, error, authentication, profileID>>
    /\ UNCHANGED <<unmounted, settingsEdit>>

\* registry.select( STORE_NAME ).isAuthenticated(), hasScope( scope ), ...: a
\* registry selector that reads getAuthentication(), whose resolver the read runs.
SelectDerived(call) ==
    /\ store = CORE_USER
    /\ hasStartedResolution(AuthKey) \/ CanCall
    /\ hist' = NoteRead(AuthKey, IsDefined(authentication))
    /\ IF hasStartedResolution(AuthKey)
       THEN UNCHANGED <<resolution, isFetching, inFlight, waiters, netCount>>
       ELSE getAuthenticationResolver
    /\ outcome' = Some([action |-> call[1], key |-> call, status |-> "read",
                        value |-> DerivedValue(call)])
    /\ UNCHANGED <<store, profiles, error, authentication, profileID>>
    /\ UNCHANGED <<unmounted, settingsEdit>>

\* registry.dispatch( STORE_NAME ).fetchGetProfiles( propertyID ) and
\* registry.dispatch( STORE_NAME ).fetchGetAuthentication()
DispatchFetch(key) ==
    /\ store = StoreOf(key)
    /\ CanCall
    /\ FetchAction("fetch", key)
    /\ hist' = IF outcome' = Threw("fetch", key) THEN hist
               ELSE [hist EXCEPT !.refetch = @ \cup {key}, !.cycle = @ \cup {key},
                                 !.calls = @ + 1]
    /\ UNCHANGED <<store, profiles, error, authentication, profileID, resolution>>
    /\ UNCHANGED <<unmounted, settingsEdit>>

\* baseActions.createProfile( propertyID, { profileName } )
createProfile(propertyID, profileName) ==
    LET key == CreateKey(propertyID, profileName) IN
    /\ store = MODULES_ANALYTICS
    /\ CanCall
    /\ IF ~isValidPropertyID(propertyID) \/ ~isValidProfileName(profileName)
       THEN /\ outcome' = Threw("createProfile", key)
            /\ UNCHANGED <<isFetching, inFlight, waiters, netCount>>
       ELSE FetchAction("createProfile", key)
    /\ hist' = IF outcome' = Threw("createProfile", key) THEN hist ELSE Called
    /\ UNCHANGED <<store, profiles, error, authentication, profileID, resolution>>
    /\ UNCHANGED <<unmounted, settingsEdit>>

\* The network answers the request of a key, whether or not the component that
\* read the key is still mounted: RECEIVE and FINISH_FETCH on success,
\* CATCH_FETCH on failure; the fetch action returns { response, error } to every
\* caller awaiting it, and a resolver among them runs to its end.
Settle(key, ok, body) ==
    LET fetched == FetchResult(ok, body)
        result == ActionResult(key, fetched) IN
    /\ inFlight[key] > 0
    /\ inFlight' = [inFlight EXCEPT ![key] = @ - 1]
    /\ isFetching' = Put(isFetching, key, FALSE)
    /\ IF ok
       THEN /\ Receive(key, body)
            /\ hist' = [hist EXCEPT !.written = @ \cup {WrittenKey(key)}]
            /\ UNCHANGED error
       ELSE /\ error' = CatchFetch(error, body)
            /\ hist' = [hist EXCEPT !.failed = @ \cup ({key} \cap ResolverKeys),
                                    !.cycle = @ \ {key}]
            /\ UNCHANGED <<profiles, authentication>>
    /\ ResolverResume(key, fetched)
    /\ outcome' = Some([action |-> BaseName(key), key |-> key, status |-> "returned",
                        ok |-> ok, body |-> body,
                        results |-> [c \in 1..waiters[key] |-> result]])
    /\ waiters' = [waiters EXCEPT ![key] = 0]
    /\ UNCHANGED <<store, netCount>>
    /\ UNCHANGED <<unmounted, settingsEdit>>

\* A store whose pending fetch is cancelled when its reader is unmounted.
RespondUnlessUnmounted ==
    \E key \in FetchKeys \ unmounted : \E ok \in BOOLEAN :
        \E body \in (IF ok THEN Responses(key) ELSE Errors) : Settle(key, ok, body)

Respond ==
    \E key \in FetchKeys : \E ok \in BOOLEAN :
        \E body \in (IF ok THEN Responses(key) ELSE Errors) : Settle(key, ok, body)

\* registry.dispatch( STORE_NAME ).receiveGetProfiles( profiles, { propertyID } )
receiveGetProfiles(response, propertyID) ==
    /\ store = MODULES_ANALYTICS
    /\ CanCall
    /\ Receive(ProfilesKey(propertyID), response)
    /\ hist' = [hist EXCEPT !.written = @ \cup {ProfilesKey(propertyID)}, !.calls = @ + 1]
    /\ outcome' = Undefined
    /\ UNCHANGED <<store, isFetching, error, profileID, resolution, inFlight, waiters,
                   netCount>>
    /\ UNCHANGED <<unmounted, settingsEdit>>

\* A receive action that takes whatever it is given.
ResponseGivenUnchecked(response) == TRUE

\* invariant( response !== undefined, 'response is required.' )
ResponseGiven(response) == IsDefined(response)

ThrewMessage(name, key, message) ==
    Some([action |-> name, key |-> key, status |-> "threw", message |-> message])

\* registry.dispatch( STORE_NAME ).receiveGetAuthentication( response ), with
\* or without the response: the reducer puts what it is given in state.
receiveGetAuthentication(response) ==
    /\ store = CORE_USER
    /\ CanCall
    /\ IF ~ResponseGiven(response)
       THEN /\ outcome' = ThrewMessage("receiveGetAuthentication", AuthKey,
                                       "response is required.")
            /\ UNCHANGED <<authentication, profiles, hist>>
       ELSE /\ authentication' = response
            /\ hist' = [hist EXCEPT !.written = @ \cup {AuthKey}, !.calls = @ + 1]
            /\ outcome' = Undefined
            /\ UNCHANGED profiles
    /\ UNCHANGED <<store, isFetching, error, profileID, resolution, inFlight, waiters,
                   netCount>>
    /\ UNCHANGED <<unmounted, settingsEdit>>

\* registry.dispatch( STORE_NAME ).setProfileID( profileID )
setProfileID(id) ==
    /\ store = MODULES_ANALYTICS
    /\ CanCall
    /\ profileID' = Some(id)
    /\ hist' = Called
    /\ outcome' = Undefined
    /\ UNCHANGED <<store, profiles, isFetching, error, authentication, resolution, inFlight,
                   waiters, netCount>>
    /\ UNCHANGED <<unmounted, settingsEdit>>

\* The component whose render read the selector of the key is unmounted while
\* the resolver of the key awaits its response; the store is not told.
UnmountReader(key) ==
    /\ store = StoreOf(key)
    /\ key \in DOMAIN resolution
    /\ resolution[key] = "started"
    /\ key \notin unmounted
    /\ unmounted' = unmounted \cup {key}
    /\ outcome' = Undefined
    /\ UNCHANGED <<store, profiles, isFetching, error, profileID, authentication,
                   resolution, inFlight, waiters, netCount, hist>>
    /\ UNCHANGED settingsEdit

\* registry.dispatch( STORE_NAME ).invalidateResolution( selectorName, args )
invalidateResolution(key) ==
    /\ store = StoreOf(key)
    /\ hasFinishedResolution(key)
    /\ CanCall
    /\ resolution' = Drop(resolution, key)
    /\ hist' = [hist EXCEPT !.refetch = @ \cup {key}, !.cycle = @ \cup {key},
                            !.calls = @ + 1]
    /\ outcome' = Undefined
    /\ UNCHANGED <<store, profiles, isFetching, error, profileID, authentication,
                   inFlight, waiters, netCount>>
    /\ UNCHANGED <<unmounted, settingsEdit>>

-----------------------------------------------------------------------------
(* SettingsEdit of modules/adsense *)

\* The values a render of SettingsEdit reads through useSelect.
Selected(changed, submitting) ==
    [haveSettingsChanged |-> changed, isDoingSubmitChanges |-> submitting]

\* A cleanup that rolls back whatever is being submitted.
RollsBackWhileSubmitting(closure) == closure.haveSettingsChanged

\* The cleanup of the rollback effect, over the values of the render that
\* registered it: if ( haveSettingsChanged && ! isDoingSubmitChanges )
RollsBack(closure) == closure.haveSettingsChanged /\ ~closure.isDoingSubmitChanges

\* rollbackSettings() has been dispatched, while the store reported submitting.
Dispatched(name, submitting) ==
    Some([action |-> name, key |-> <<name>>, status |-> "dispatched",
          isDoingSubmitChanges |-> submitting])

\* addFilter( hook, namespace, callback ): one more handler under the namespace.
addFilter(registered) == registered + 1

\* A cleanup that leaves the handler on the hook.
removeFilterKeeping(registered) == registered

\* removeFilter( hook, namespace ): no handler under the namespace is left.
removeFilter(registered) == 0

\* What submitChanges() may return: nothing, an object without an error, an
\* object with an error.
SubmitResults ==
    {Undefined, Some([error |-> Undefined]), Some([error |-> Some(internalServerError)])}

\* The modules a confirmation names, and the values the filter chain carries.
Modules == {"adsense-module", "analytics-module"}
ChainValues == {"chain", "other chain"}

\* const { error } = await submitChanges() || {};
ErrorOf(result) == IF IsDefined(result) THEN Get(result).error ELSE Undefined

\* The save ended without an error.
Succeeded(result) == ~IsDefined(ErrorOf(result))

\* A handler that submits the changes whatever the module.
CallsSubmitChangesAlways(module) == TRUE

\* if ( 'adsense-module' === module )
CallsSubmitChanges(module) == "adsense-module" = module

\* The promise the handler returned for ( chain, module ) has settled:
\* resolved or rejected with a value, after so many calls of submitChanges().
Promise(chain, module, status, value, calls) ==
    Some([action |-> "googlekit.AdSenseSettingsConfirmed", key |-> <<chain, module>>,
          status |-> status, value |-> value, submitChanges |-> calls])

\* A handler that resolves whatever submitChanges() returned.
HandlerReturnResolving(chain, module, result, calls) ==
    Promise(chain, module, "resolved", Undefined, calls)

\* if ( error ) { return Promise.reject( error ); } return Promise.resolve();
HandlerReturn(chain, module, result, calls) ==
    IF IsDefined(ErrorOf(result))
    THEN Promise(chain, module, "rejected", ErrorOf(result), calls)
    ELSE Promise(chain, module, "resolved", Undefined, calls)

\* A call of the handler is at its await, with nothing returned to it yet.
Awaiting(h) == IsDefined(h) /\ ~IsDefined(Get(h).awaited)

\* The store's values become changed, submitting. A mounted SettingsEdit
\* whose last render read other values renders again: the dependencies of the
\* rollback effect differ, so the cleanup of the previous render runs, over
\* that render's values, and the effect is registered again. A rollback the
\* cleanup dispatches resets the settings, and the component renders once more.
StoreChange(changed, submitting) ==
    IF mounted /\ Get(rendered) # Selected(changed, submitting)
    THEN /\ haveSettingsChanged' = IF RollsBack(Get(rendered)) THEN FALSE ELSE changed
         /\ isDoingSubmitChanges' = submitting
         /\ rendered' = Some(Selected(haveSettingsChanged', submitting))
         /\ outcome' = IF RollsBack(Get(rendered))
                       THEN Dispatched("rollbackSettings", submitting) ELSE Undefined
    ELSE /\ haveSettingsChanged' = changed
         /\ isDoingSubmitChanges' = submitting
         /\ outcome' = Undefined
         /\ UNCHANGED rendered

\* SettingsEdit is mounted: its first render, which registers the effects. The
\* effect of the filter has no dependencies: it runs at this render alone.
Mount ==
    /\ store = MODULES_ADSENSE
    /\ ~mounted
    /\ mounted' = TRUE
    /\ rendered' = Some(Selected(haveSettingsChanged, isDoingSubmitChanges))
    /\ filters' = addFilter(filters)
    /\ outcome' = Undefined
    /\ UNCHANGED <<store, haveSettingsChanged, isDoingSubmitChanges, handler, dataStores>>

\* SettingsEdit is unmounted: the cleanups of its rollback effect and of its
\* filter effect run.
Unmount ==
    /\ store = MODULES_ADSENSE
    /\ mounted
    /\ mounted' = FALSE
    /\ rendered' = Undefined
    /\ haveSettingsChanged' = IF RollsBack(Get(rendered)) THEN FALSE ELSE haveSettingsChanged
    /\ outcome' = IF RollsBack(Get(rendered))
                  THEN Dispatched("rollbackSettings", isDoingSubmitChanges) ELSE Undefined
    /\ filters' = removeFilter(filters)
    /\ UNCHANGED <<store, isDoingSubmitChanges, handler, dataStores>>

\* A setting is given a value: one that differs from the saved one, or the
\* saved one again.
setSettings(changed) ==
    /\ store = MODULES_ADSENSE
    /\ changed # haveSettingsChanged
    /\ StoreChange(changed, isDoingSubmitChanges)
    /\ UNCHANGED <<store, mounted, filters, handler, dataStores>>

\* submitChanges() starts saving the settings.
submitChanges ==
    /\ store = MODULES_ADSENSE
    /\ ~isDoingSubmitChanges
    /\ StoreChange(haveSettingsChanged, TRUE)
    /\ UNCHANGED <<store, mounted, filters, handler, dataStores>>

\* submitChanges() ends with a result: the saved settings are the current ones
\* when the save succeeded, and are as they were when it failed. A call of the
\* filter handler that awaits the result is given it.
FinishSubmitChanges(result) ==
    /\ store = MODULES_ADSENSE
    /\ isDoingSubmitChanges
    /\ StoreChange(IF Succeeded(result) THEN FALSE ELSE haveSettingsChanged, FALSE)
    /\ handler' = IF Awaiting(handler)
                  THEN Some([Get(handler) EXCEPT !.awaited = Some(result)])
                  ELSE handler
    /\ UNCHANGED <<store, mounted, filters, dataStores>>

\* applyFilters( 'googlekit.SettingsConfirmed', chain, module ) reaches the
\* registered handler, which runs up to its await or to its return. A handler
\* for 'adsense-module' calls submitChanges(), here while no save is under way.
AdSenseSettingsConfirmed(chain, module) ==
    /\ store = MODULES_ADSENSE
    /\ filters > 0
    /\ handler = Undefined
    /\ IF CallsSubmitChanges(module)
       THEN /\ ~isDoingSubmitChanges
            /\ StoreChange(haveSettingsChanged, TRUE)
            /\ handler' = Some([chain |-> chain, module |-> module,
                                submitChanges |-> 1, awaited |-> Undefined])
       ELSE /\ outcome' = Promise(chain, module, "resolved", Some(chain), 0)
            /\ UNCHANGED <<haveSettingsChanged, isDoingSubmitChanges, rendered, handler>>
    /\ UNCHANGED <<store, mounted, filters, dataStores>>

\* The handler goes on after its await, with what submitChanges() returned,
\* and settles the promise it has returned.
ResumeAdSenseSettingsConfirmed ==
    /\ store = MODULES_ADSENSE
    /\ IsDefined(handler)
    /\ IsDefined(Get(handler).awaited)
    /\ outcome' = HandlerReturn(Get(handler).chain, Get(handler).module,
                                Get(Get(handler).awaited), Get(handler).submitChanges)
    /\ handler' = Undefined
    /\ UNCHANGED <<store, haveSettingsChanged, isDoingSubmitChanges, mounted, rendered,
                   filters, dataStores>>

-----------------------------------------------------------------------------
(* Specification *)

Init ==
    /\ store \in {CORE_USER, MODULES_ANALYTICS, MODULES_ADSENSE}
    /\ profiles = <<>>
    /\ isFetching = <<>>
    /\ error = Undefined
    /\ profileID = Undefined
    /\ authentication = Undefined
    /\ resolution = <<>>
    /\ inFlight = [k \in FetchKeys |-> 0]
    /\ waiters = [k \in FetchKeys |-> 0]
    /\ netCount = [k \in FetchKeys |-> 0]
    /\ unmounted = {}
    /\ haveSettingsChanged = FALSE
    /\ isDoingSubmitChanges = FALSE
    /\ mounted = FALSE
    /\ rendered = Undefined
    /\ filters = 0
    /\ handler = Undefined
    /\ outcome = Undefined
    /\ hist = [preloaded |-> {}, refetch |-> {}, written |-> {}, failed |-> {},
               cycle |-> {}, calls |-> 0]

Next ==
    \/ \E p \in PropertyIDs : SelectGetProfiles(p)
    \/ SelectGetAuthentication
    \/ \E call \in DerivedCalls : SelectDerived(call)
    \/ \E key \in ResolverKeys : DispatchFetch(key)
    \/ \E p \in PropertyIDs : \E n \in ProfileNames : createProfile(p, n)
    \/ Respond
    \/ \E p \in ValidPropertyIDs : \E r \in ProfilesResponses : receiveGetProfiles(r, p)
    \/ \E r \in {Undefined} \cup {Some(a) : a \in AuthenticationResponses} :
            receiveGetAuthentication(r)
    \/ \E id \in SelectableProfileIDs : setProfileID(id)
    \/ \E key \in {k \in ResolverKeys : ParamsValid(k)} : invalidateResolution(key)
    \/ \E key \in ResolverKeys : UnmountReader(key)
    \/ Mount
    \/ Unmount
    \/ \E changed \in BOOLEAN : setSettings(changed)
    \/ submitChanges
    \/ \E result \in SubmitResults : FinishSubmitChanges(result)
    \/ \E chain \in ChainValues : \E module \in Modules :
            AdSenseSettingsConfirmed(chain, module)
    \/ ResumeAdSenseSettingsConfirmed

Spec == Init /\ [][Next]_vars

\* The runs of at most MaxFairCalls calls, in which the network answers the
\* requests it was sent, with a response or an error.
FairNext == Next /\ hist'.calls <= MaxFairCalls

FairSpec == Init /\ [][FairNext]_vars /\ WF_vars(Respond)

-----------------------------------------------------------------------------
(* Properties *)

\* The value the selector of a resolver key returns.
Value(key) == IF key = AuthKey THEN getAuthentication ELSE getProfiles(key[2])

Returned(o) == IsDefined(o) /\ Get(o).status = "returned"
ReturnedOk(o) == Returned(o) /\ Get(o).ok
ReturnedError(o) == Returned(o) /\ ~Get(o).ok

\* A step that is a repeated read of a selector: the resolver does not run again.
RepeatedRead ==
    /\ outcome' = Undefined
    /\ UNCHANGED <<hist, resolution, isFetching, inFlight, waiters, error, profileID>>

\* C1: for every resolver key (getAuthentication, getProfiles of a propertyID)
\* that has not been explicitly re-fetched, at most one network request has
\* been issued whatever the number of reads, and exactly one once the key has
\* been read with valid arguments and without its data already in state;
\* a repeated read issues no request.
C1_ReadsFetchOnce ==
    /\ [](\A key \in ResolverKeys :
            key \notin hist.refetch =>
                /\ netCount[key] <= 1
                /\ (hasStartedResolution(key) /\ key \notin hist.preloaded
                        /\ (key = AuthKey \/ key[2] \in ValidPropertyIDs))
                    => netCount[key] = 1)
    /\ [][RepeatedRead => netCount' = netCount]_vars

C1_Witness ==
    \E key \in ProfilesKeys :
        /\ key \notin hist.refetch
        /\ hasFinishedResolution(key)
        /\ netCount[key] = 1
        /\ hist.calls > 1

\* C2: in the state a successful fetch of a resolver key leaves, the selector
\* returns the response body exactly (the same profiles in the same order, the
\* same authentication object), and a repeated read leaves that value as it is.
C2_ValueIsResponse ==
    /\ [](\A key \in ResolverKeys :
            (ReturnedOk(outcome) /\ Get(outcome).key = key)
                => Value(key) = Some(Get(outcome).body))
    /\ [][RepeatedRead => (profiles' = profiles /\ authentication' = authentication)]_vars

C2_Witness ==
    /\ ReturnedOk(outcome)
    /\ BaseName(Get(outcome).key) = "getProfiles"
    /\ Get(outcome).body = <<P1, P2>>
    /\ Get(outcome).key[2] \in DOMAIN profiles
    /\ Len(profiles[Get(outcome).key[2]]) = 2


\* The state of the stores, without the bookkeeping of calls and of history.
storeState == <<profiles, isFetching, error, profileID, authentication>>

\* C3: in the state a failed fetch of a resolver key leaves, getError() returns
\* the failure payload, the key is no longer fetching, its resolution, if one
\* was running, is finished, exactly one request was issued for it when it was
\* not explicitly re-fetched; and the failure writes no value: a value that was
\* undefined stays undefined.
C3_FailureKeepsUndefined ==
    /\ [](\A key \in ResolverKeys :
            (ReturnedError(outcome) /\ Get(outcome).key = key) =>
                /\ getError = Some(Get(outcome).body)
                /\ ~IsFetchingKey(key)
                /\ (hasStartedResolution(key) => hasFinishedResolution(key))
                /\ (key \notin hist.refetch => netCount[key] = 1))
    /\ [][\A key \in ResolverKeys :
            (ReturnedError(outcome') /\ Get(outcome').key = key) =>
                /\ (Value(key) = Undefined => Value(key)' = Undefined)
                /\ profiles' = profiles
                /\ authentication' = authentication]_vars

C3_Witness ==
    \E p \in ValidPropertyIDs :
        /\ ReturnedError(outcome)
        /\ Get(outcome).key = ProfilesKey(p)
        /\ ProfilesKey(p) \notin hist.refetch
        /\ hasFinishedResolution(ProfilesKey(p))
        /\ getProfiles(p) = Undefined
        /\ getError = Some(internalServerError)

\* The arguments of a call do not pass isValidPropertyID / isValidProfileName.
InvalidArguments(key) ==
    \/ BaseName(key) \in {"getProfiles", "createProfile"} /\ key[2] \notin ValidPropertyIDs
    \/ BaseName(key) = "createProfile" /\ key[3] \notin ValidProfileNames

\* C4: a call of createProfile or of a fetch action with an invalid propertyID
\* or profileName throws: no request is ever issued for such arguments, the
\* call yields a throw and never a pending request, and the step of the throw
\* leaves the store state and the network untouched.
C4_InvalidParamsThrow ==
    /\ [](\A key \in FetchKeys :
            InvalidArguments(key) =>
                /\ netCount[key] = 0
                /\ inFlight[key] = 0
                /\ (IsDefined(outcome) /\ Get(outcome).key = key)
                        => Get(outcome).status = "threw")
    /\ [][(IsDefined(outcome') /\ Get(outcome').status = "threw") =>
            UNCHANGED <<storeState, resolution, inFlight, netCount>>]_vars

C4_Witness ==
    /\ outcome = Threw("createProfile", CreateKey("UA-1-1", ""))
    /\ hist.calls > 0
    /\ DOMAIN profiles # {}

C4_WitnessFetch ==
    /\ outcome = Threw("fetch", ProfilesKey("bad"))
    /\ hist.calls > 0

\* C5: at most one network request is in flight per fetch key; a call made
\* for a key whose request is pending issues no request, and every caller
\* awaiting a request is handed the same result when it settles.
C5_OneInFlightPerKey ==
    /\ [](\A key \in FetchKeys :
            /\ inFlight[key] <= 1
            /\ (Returned(outcome) /\ Get(outcome).key = key) =>
                    \A c, d \in DOMAIN Get(outcome).results :
                        Get(outcome).results[c] = Get(outcome).results[d])
    /\ [][\A key \in FetchKeys :
            (inFlight[key] > 0 /\ IsDefined(outcome') /\ Get(outcome').key = key
                /\ Get(outcome').status = "pending")
            => (netCount' = netCount /\ inFlight' = inFlight)]_vars

C5_Witness ==
    /\ Returned(outcome)
    /\ BaseName(Get(outcome).key) = "createProfile"
    /\ Len(Get(outcome).results) >= 2
    /\ netCount[Get(outcome).key] = 1

\* C6: the step in which a createProfile request for propertyID p succeeds
\* leaves the list of p as the list it was (empty when absent) with the
\* returned profile appended at its end, and leaves the entry of every other
\* propertyID as it was.
C6_CreateAppends ==
    [][\A p \in PropertyIDs : \A n \in ProfileNames :
        (ReturnedOk(outcome') /\ Get(outcome').key = CreateKey(p, n)) =>
            LET old == IF p \in DOMAIN profiles THEN profiles[p] ELSE <<>> IN
            /\ p \in DOMAIN profiles'
            /\ profiles'[p] = old \o <<Get(outcome').body>>
            /\ \A q \in PropertyIDs \ {p} :
                    /\ q \in DOMAIN profiles' <=> q \in DOMAIN profiles
                    /\ q \in DOMAIN profiles => profiles'[q] = profiles[q]]_vars

C6_Witness ==
    \E p \in ValidPropertyIDs : \E q \in ValidPropertyIDs \ {p} :
        /\ ReturnedOk(outcome)
        /\ BaseName(Get(outcome).key) = "createProfile"
        /\ Get(outcome).key[2] = p
        /\ p \in DOMAIN profiles
        /\ profiles[p] = <<P1, P2, P3>>
        /\ q \in DOMAIN profiles

\* C7: the step in which a createProfile request fails hands every caller a
\* result whose error is the failure and whose response is undefined, and
\* leaves state.profiles exactly as it was, for every propertyID.
C7_CreateFailureKeepsProfiles ==
    /\ [](\A key \in CreateKeys :
            (ReturnedError(outcome) /\ Get(outcome).key = key) =>
                /\ Len(Get(outcome).results) >= 1
                /\ \A c \in DOMAIN Get(outcome).results :
                        /\ Get(outcome).results[c].error = Some(Get(outcome).body)
                        /\ Get(outcome).results[c].response = Undefined)
    /\ [][(ReturnedError(outcome') /\ BaseName(Get(outcome').key) = "createProfile")
            => profiles' = profiles]_vars

C7_Witness ==
    /\ ReturnedError(outcome)
    /\ BaseName(Get(outcome).key) = "createProfile"
    /\ Get(outcome).key[2] \in DOMAIN profiles
    /\ Cardinality(DOMAIN profiles) = 2

\* C8: a key whose data was already in state at its first read, and that was
\* not explicitly re-fetched, has had no network request issued, has its
\* resolution finished, and its selector returns a value.
C8_PreloadedNoFetch ==
    \A key \in ResolverKeys :
        (key \in hist.preloaded /\ key \notin hist.refetch) =>
            /\ netCount[key] = 0
            /\ inFlight[key] = 0
            /\ hasFinishedResolution(key)
            /\ IsDefined(Value(key))

C8_Witness ==
    \E p \in ValidPropertyIDs :
        /\ ProfilesKey(p) \in hist.preloaded
        /\ ProfilesKey(p) \notin hist.refetch
        /\ getProfiles(p) = Some(<<P1, P2>>)

\* The fetch status of the cache entry of a resolver key.
Status(key) ==
    IF (IF key = AuthKey THEN IsFetchingKey(key) ELSE isDoingGetProfiles(key[2]))
    THEN "fetching"
    ELSE IF key \in DOMAIN isFetching THEN "settled" ELSE "unfetched"

C10_UntouchedKey ==
    \A key \in ResolverKeys :
        (~hasStartedResolution(key) /\ key \notin hist.refetch /\ key \notin hist.written) =>
            /\ Value(key) = Undefined
            /\ netCount[key] = 0
            /\ inFlight[key] = 0
            /\ key \notin DOMAIN isFetching

C10_Witness ==
    \E p \in ValidPropertyIDs : \E q \in ValidPropertyIDs \ {p} :
        /\ ~hasStartedResolution(ProfilesKey(q))
        /\ ProfilesKey(q) \notin hist.refetch
        /\ ProfilesKey(q) \notin hist.written
        /\ hasFinishedResolution(ProfilesKey(p))
        /\ netCount[ProfilesKey(p)] = 1
        /\ getProfiles(p) = Some(<<P1, P2>>)

\* A step in which a network request is issued for the key.
Issues(key) == netCount'[key] > netCount[key]

\* A step in which the caller explicitly starts a fetch cycle for the key: it
\* dispatches the fetch action (an invalidation, the other way to start one,
\* issues nothing by itself and puts the key in hist.cycle).
ExplicitFetch(key) == outcome' = Pending("fetch", key)

\* C11 as stated: once a fetch of a resolver key has failed, whatever issued
\* it, no step other than an explicit fetch of the key issues a network request
\* for the key, until the caller starts a new fetch cycle for it.
C11_NoRequestAfterAnyFailure ==
    [][\A key \in ResolverKeys :
        (key \in hist.failed /\ key \notin hist.cycle /\ Issues(key))
            => ExplicitFetch(key)]_vars

\* C11, amended: once the fetch of a resolver key whose selector has been read
\* (its resolver has run) has failed, reads of the selector issue no network
\* request for the key until the caller starts a new fetch cycle for it; the
\* only step that issues one is an explicit fetch.
C11_NoAutomaticRetry ==
    [][\A key \in ResolverKeys :
        (key \in hist.failed /\ key \notin hist.cycle /\ key \in DOMAIN resolution
                /\ Issues(key))
            => ExplicitFetch(key)]_vars

C11_Witness ==
    \E key \in ResolverKeys :
        /\ key \in hist.failed
        /\ key \notin hist.cycle
        /\ key \in DOMAIN resolution
        /\ resolution[key] = "finished"
        /\ netCount[key] = 1
        /\ hist.calls = 1
        /\ outcome = Undefined

\* A step in which the resolver of the key runs.
ResolverRuns(key) == key \notin DOMAIN resolution /\ key \in DOMAIN resolution'

\* The state a recovered key is in: its fetch has failed, and a later request
\* for it has just succeeded.
Recovered(key) ==
    key \in hist.failed /\ ReturnedOk(outcome) /\ Get(outcome).key = key

\* C12 as stated: once a fetch of a resolver key has failed and settled, a
\* run of the resolver of the key issues a fresh network request, and when a
\* request for the key then succeeds the selector returns its response body.
C12_ResolverAlwaysRefetches ==
    /\ [](\A key \in ResolverKeys :
            Recovered(key) => Value(key) = Some(Get(outcome).body))
    /\ [][\A key \in ResolverKeys :
            (key \in hist.failed /\ ~IsFetchingKey(key) /\ ResolverRuns(key))
                => (Issues(key) /\ inFlight'[key] = 1)]_vars

\* C12, amended: once a fetch of a resolver key has failed and settled, a run
\* of the resolver of the key, when state holds no value for the key, issues a
\* fresh network request, and when a request for the key then succeeds the
\* selector returns its response body.
C12_RecoverableByResolver ==
    /\ [](\A key \in ResolverKeys :
            Recovered(key) => Value(key) = Some(Get(outcome).body))
    /\ [][\A key \in ResolverKeys :
            (key \in hist.failed /\ ~IsFetchingKey(key) /\ Value(key) = Undefined
                /\ ResolverRuns(key))
                => (Issues(key) /\ inFlight'[key] = 1)]_vars

C12_Witness ==
    \E p \in ValidPropertyIDs :
        /\ Recovered(ProfilesKey(p))
        /\ hasFinishedResolution(ProfilesKey(p))
        /\ netCount[ProfilesKey(p)] = 2
        /\ getProfiles(p) = Some(<<P1, P2>>)
        /\ getError = Some(internalServerError)

\* The result of the request that has just settled is in the store: the value
\* where the reducer of the key puts it, or the error.
Merged ==
    LET key == Get(outcome).key
        body == Get(outcome).body IN
    IF ~Get(outcome).ok THEN getError = Some(body)
    ELSE CASE BaseName(key) = "getAuthentication" -> getAuthentication = Some(body)
           [] BaseName(key) = "getProfiles" -> getProfiles(key[2]) = Some(body)
           [] BaseName(key) = "createProfile" ->
                /\ key[2] \in DOMAIN profiles
                /\ Len(profiles[key[2]]) > 0
                /\ profiles[key[2]][Len(profiles[key[2]])] = body

\* C13: every network request that was issued eventually settles, whether or
\* not the component that read the key has been unmounted meanwhile: from
\* every point of a run a point is reached where no request is in flight, a
\* request leaves flight only by settling, and in the state its settling
\* leaves its result (value or error) is in the store.
C13_NoCancellation ==
    /\ []<>(\A key \in FetchKeys : inFlight[key] = 0)
    /\ [][\A key \in FetchKeys :
            inFlight'[key] < inFlight[key]
                => (Returned(outcome') /\ Get(outcome').key = key)]_vars
    /\ [](Returned(outcome) => Merged)

C13_Witness ==
    \E p \in ValidPropertyIDs :
        /\ ProfilesKey(p) \in unmounted
        /\ ReturnedOk(outcome)
        /\ Get(outcome).key = ProfilesKey(p)
        /\ getProfiles(p) = Some(<<P1, P2>>)
        /\ netCount[ProfilesKey(p)] = 1

\* The list state.profiles holds for a propertyID, empty when it holds none.
ListOf(stateProfiles, propertyID) ==
    IF propertyID \in DOMAIN stateProfiles THEN stateProfiles[propertyID] ELSE <<>>

\* C14: whatever the order in which the responses of getProfiles requests and
\* of createProfile requests for one propertyID arrive, the step of each
\* successful response leaves the list of the propertyID determined by that
\* response and the list before it: a getProfiles response becomes the whole
\* list (profiles appended before are gone unless the response has them), a
\* createProfile response is appended to the list as it was.
C14_LastWriteWins ==
    [][\A key \in ProfilesKeys \cup CreateKeys :
        (ReturnedOk(outcome') /\ Get(outcome').key = key) =>
            /\ key[2] \in DOMAIN profiles'
            /\ profiles'[key[2]] =
                    IF BaseName(key) = "getProfiles" THEN Get(outcome').body
                    ELSE ListOf(profiles, key[2]) \o <<Get(outcome').body>>]_vars

C14_Witness ==
    \E p \in ValidPropertyIDs : \E n \in ValidProfileNames :
        /\ ReturnedOk(outcome)
        /\ Get(outcome).key = ProfilesKey(p)
        /\ netCount[CreateKey(p, n)] = 1
        /\ inFlight[CreateKey(p, n)] = 0
        /\ getError = Undefined
        /\ getProfiles(p) = Some(<<P1, P2>>)

\* The step just taken was a read of a selector derived from the
\* authentication info.
DerivedRead(o) == IsDefined(o) /\ Get(o).status = "read"

\* The field of the response each derived selector answers with.
FieldRead(name) ==
    CASE name = "isAuthenticated" -> "authenticated"
      [] name = "getGrantedScopes" -> "grantedScopes"
      [] name = "getRequiredScopes" -> "requiredScopes"
      [] name = "getUnsatisfiedScopes" -> "unsatisfiedScopes"
      [] name = "needsReauthentication" -> "needsReauthentication"

\* What a derived selector must answer once the response is in state.
Expected(call, response) ==
    IF call[1] = "hasScope"
    THEN Some(call[2] \in {response.grantedScopes[i] : i \in DOMAIN response.grantedScopes})
    ELSE IF FieldRead(call[1]) \in DOMAIN response
         THEN Some(response[FieldRead(call[1])])
         ELSE Undefined

\* C15: a read of isAuthenticated, hasScope, getGrantedScopes,
\* getRequiredScopes, getUnsatisfiedScopes or needsReauthentication answers
\* undefined while no authentication info is in state, and once it is there
\* answers the corresponding field of the response (hasScope( s ): whether s
\* is among grantedScopes); the read issues no request other than the one
\* request of the getAuthentication resolver, which it issues only when that
\* resolver has not run, no info is in state and no getAuthentication request
\* is pending already.
C15_DerivedSelectors ==
    /\ [](DerivedRead(outcome) =>
            Get(outcome).value =
                IF authentication = Undefined THEN Undefined
                ELSE Expected(Get(outcome).key, authentication[1]))
    /\ [][DerivedRead(outcome') =>
            /\ authentication' = authentication
            /\ \A key \in FetchKeys \ {AuthKey} : netCount'[key] = netCount[key]
            /\ netCount'[AuthKey] =
                    IF AuthKey \notin DOMAIN resolution /\ authentication = Undefined
                        /\ inFlight[AuthKey] = 0
                    THEN netCount[AuthKey] + 1 ELSE netCount[AuthKey]
            /\ (AuthKey \notin DOMAIN resolution /\ authentication = Undefined)
                    => inFlight'[AuthKey] = 1
            /\ AuthKey \in DOMAIN resolution']_vars
    /\ [](AuthKey \notin hist.refetch => netCount[AuthKey] <= 1)

C15_Witness ==
    /\ outcome = Some([action |-> "hasScope", key |-> <<"hasScope", grantedScope>>,
                       status |-> "read", value |-> Some(TRUE)])
    /\ authentication = Some(grantedScopeResponse)
    /\ netCount[AuthKey] = 1
    /\ AuthKey \notin hist.preloaded

C15_WitnessNotLoaded ==
    /\ DerivedRead(outcome)
    /\ Get(outcome).key = <<"needsReauthentication">>
    /\ Get(outcome).value = Undefined
    /\ inFlight[AuthKey] = 1

\* The call just made was receiveGetAuthentication and it threw.
ReceiveThrew(o) ==
    /\ IsDefined(o)
    /\ Get(o).action = "receiveGetAuthentication"
    /\ Get(o).status = "threw"

\* C16: receiveGetAuthentication without a response throws 'response is
\* required.': the step of the throw leaves the store state as it was, and no
\* receive ever leaves the authentication info undefined; a dispatch of
\* fetchGetAuthentication() never throws: it yields a pending request.
C16_ReceiveRequiresResponse ==
    /\ [](ReceiveThrew(outcome) => Get(outcome).message = "response is required.")
    /\ [](AuthKey \in hist.written =>
            /\ IsDefined(authentication)
            /\ Get(authentication) \in AuthenticationResponses)
    /\ []((IsDefined(outcome) /\ Get(outcome).action = "fetch"
                /\ Get(outcome).key = AuthKey) => Get(outcome).status = "pending")
    /\ [][ReceiveThrew(outcome') =>
            UNCHANGED <<storeState, resolution, inFlight, netCount, hist>>]_vars

C16_Witness ==
    /\ ReceiveThrew(outcome)
    /\ IsDefined(authentication)
    /\ netCount[AuthKey] = 1
    /\ hist.calls > 0

C16_WitnessFetch ==
    /\ outcome = Pending("fetch", AuthKey)
    /\ inFlight[AuthKey] = 1

\* rollbackSettings() was dispatched in the step just taken.
RolledBack(o) == IsDefined(o) /\ Get(o).action = "rollbackSettings"

\* C17: the step in which SettingsEdit is unmounted dispatches
\* rollbackSettings exactly when the settings have changed and no submission
\* is in progress (in the store, and in the last render of the component,
\* which has read the store's values); unmounted with unchanged settings, it
\* dispatches no rollback.
C17_RollbackOnUnmount ==
    /\ [](mounted =>
            rendered = Some(Selected(haveSettingsChanged, isDoingSubmitChanges)))
    /\ [][(mounted /\ ~mounted') =>
            /\ RolledBack(outcome') <=> (haveSettingsChanged /\ ~isDoingSubmitChanges)
            /\ ~haveSettingsChanged => outcome' = Undefined]_vars

C17_Witness ==
    /\ store = MODULES_ADSENSE
    /\ ~mounted
    /\ RolledBack(outcome)
    /\ ~haveSettingsChanged
    /\ ~isDoingSubmitChanges

C17_WitnessNoRollback ==
    /\ store = MODULES_ADSENSE
    /\ ~mounted
    /\ outcome = Undefined
    /\ isDoingSubmitChanges
    /\ haveSettingsChanged

\* C18: rollbackSettings is dispatched only in the step that unmounts
\* SettingsEdit, never in a step that leaves it mounted, and never while the
\* store reports isDoingSubmitChanges as true.
C18_RollbackOnlyOnUnmount ==
    [][RolledBack(outcome') =>
        /\ mounted /\ ~mounted'
        /\ ~Get(outcome').isDoingSubmitChanges]_vars

\* A step in which the resolver of the key runs to its end.
ResolverEnds(key) ==
    /\ ~(key \in DOMAIN resolution /\ resolution[key] = "finished")
    /\ key \in DOMAIN resolution'
    /\ resolution'[key] = "finished"

\* The id of the first profile of a list, or PROFILE_CREATE when it has none.
FirstProfileID(list) == IF list = <<>> THEN PROFILE_CREATE ELSE list[1].id

\* C19: the step in which the getProfiles resolver of a valid propertyID ends
\* leaves the selected profile ID as it was when one was selected or when the
\* fetch failed; otherwise it leaves selected the id of the first profile of
\* the list (the response just fetched, or the list state held when the
\* resolver started), or PROFILE_CREATE when the list is empty.
C19_ResolverSelectsProfile ==
    [][\A p \in ValidPropertyIDs :
        ResolverEnds(ProfilesKey(p)) =>
            IF profileID # Undefined \/ ReturnedError(outcome')
            THEN profileID' = profileID
            ELSE profileID' =
                    Some(FirstProfileID(IF ReturnedOk(outcome') THEN Get(outcome').body
                                        ELSE profiles[p]))]_vars

C19_Witness ==
    \E p \in ValidPropertyIDs :
        /\ hasFinishedResolution(ProfilesKey(p))
        /\ ReturnedOk(outcome)
        /\ Get(outcome).key = ProfilesKey(p)
        /\ Get(outcome).body = <<P1, P2>>
        /\ profileID = Some("p1")

C19_WitnessCreate ==
    \E p \in ValidPropertyIDs :
        /\ hasFinishedResolution(ProfilesKey(p))
        /\ ProfilesKey(p) \in hist.preloaded
        /\ getProfiles(p) = Some(<<>>)
        /\ profileID = Some(PROFILE_CREATE)

C19_WitnessSelected ==
    \E p \in ValidPropertyIDs :
        /\ hasFinishedResolution(ProfilesKey(p))
        /\ ReturnedOk(outcome)
        /\ Get(outcome).key = ProfilesKey(p)
        /\ Get(outcome).body = <<P1, P2>>
        /\ profileID = Some("p2")

\* C20: the step in which the getProfiles resolver runs for an invalid
\* propertyID ends the resolver without a throw, issues no network request
\* and leaves the store state as it was: no profiles entry, no selected
\* profile ID, no error; no request is ever issued for such a propertyID.
C20_InvalidPropertyResolver ==
    /\ [](\A p \in PropertyIDs \ ValidPropertyIDs :
            /\ netCount[ProfilesKey(p)] = 0
            /\ inFlight[ProfilesKey(p)] = 0
            /\ ProfilesKey(p) \in DOMAIN resolution
                    => resolution[ProfilesKey(p)] = "finished")
    /\ [][\A p \in PropertyIDs \ ValidPropertyIDs :
            ResolverRuns(ProfilesKey(p)) =>
                /\ outcome' = Undefined
                /\ UNCHANGED <<storeState, inFlight, waiters, netCount>>]_vars

C20_Witness ==
    \E p \in PropertyIDs \ ValidPropertyIDs :
        /\ hasFinishedResolution(ProfilesKey(p))
        /\ p \notin DOMAIN profiles
        /\ DOMAIN profiles # {}
        /\ profileID = Undefined
        /\ getError = Undefined

\* C21: isDoingCreateProfile() is true exactly while a createProfile request,
\* for whatever propertyID and profileName, is in flight: false before any was
\* issued, true from the step that issues one, and false again once every
\* issued one has settled, by success or by failure.
C21_IsDoingCreateProfile ==
    /\ [](isDoingCreateProfile <=> \E key \in CreateKeys : inFlight[key] > 0)
    /\ []((\A key \in CreateKeys : netCount[key] = 0) => ~isDoingCreateProfile)
    /\ [][\A key \in CreateKeys :
            netCount'[key] > netCount[key] => isDoingCreateProfile']_vars

C21_Witness ==
    \E key \in CreateKeys : \E other \in CreateKeys \ {key} :
        /\ Returned(outcome)
        /\ Get(outcome).key = key
        /\ inFlight[key] = 0
        /\ inFlight[other] = 1
        /\ isDoingCreateProfile

C21_WitnessSettled ==
    \E key \in CreateKeys :
        /\ ReturnedError(outcome)
        /\ Get(outcome).key = key
        /\ netCount[key] = 1
        /\ ~isDoingCreateProfile

\* The promise of a call of the 'googlekit.SettingsConfirmed' handler has
\* settled in the step just taken.
Confirmed(o) == IsDefined(o) /\ Get(o).action = "googlekit.AdSenseSettingsConfirmed"

\* C22: the handler SettingsEdit registers on 'googlekit.SettingsConfirmed',
\* called for 'adsense-module', calls submitChanges() once and returns a
\* promise that rejects with the error when submitChanges() returned one and
\* resolves otherwise, also when submitChanges() returned nothing. Called for
\* another module it returns the chain value it was given and does not call
\* submitChanges().
C22_SettingsConfirmedHandler ==
    /\ [][/\ (handler = Undefined /\ IsDefined(handler')) =>
                /\ Get(handler').module = "adsense-module"
                /\ Get(handler').submitChanges = 1
                /\ ~isDoingSubmitChanges /\ isDoingSubmitChanges'
                /\ ~Confirmed(outcome')
          /\ (IsDefined(handler) /\ handler' = Undefined) =>
                LET returned == Get(Get(handler).awaited)
                    failed == IsDefined(returned) /\ IsDefined(Get(returned).error)
                IN  /\ Confirmed(outcome')
                    /\ Get(outcome').key = <<Get(handler).chain, "adsense-module">>
                    /\ Get(outcome').submitChanges = 1
                    /\ isDoingSubmitChanges' = isDoingSubmitChanges
                    /\ failed => /\ Get(outcome').status = "rejected"
                                 /\ Get(outcome').value = Get(returned).error
                    /\ ~failed => /\ Get(outcome').status = "resolved"
                                  /\ Get(outcome').value = Undefined
          /\ Confirmed(outcome') =>
                \/ IsDefined(handler) /\ handler' = Undefined
                \/ /\ Get(outcome').key[2] # "adsense-module"
                   /\ Get(outcome').status = "resolved"
                   /\ Get(outcome').value = Some(Get(outcome').key[1])
                   /\ Get(outcome').submitChanges = 0
                   /\ UNCHANGED <<isDoingSubmitChanges, haveSettingsChanged, handler>>
         ]_vars

C22_Witness ==
    /\ Confirmed(outcome)
    /\ Get(outcome).key[2] = "adsense-module"
    /\ Get(outcome).status = "rejected"
    /\ Get(outcome).value = Some(internalServerError)

C22_WitnessResolved ==
    /\ Confirmed(outcome)
    /\ Get(outcome).key[2] = "adsense-module"
    /\ Get(outcome).status = "resolved"
    /\ Get(outcome).submitChanges = 1

C22_WitnessNothing ==
    /\ IsDefined(handler)
    /\ Get(handler).awaited = Some(Undefined)
    /\ ~isDoingSubmitChanges

C22_WitnessOtherModule ==
    /\ Confirmed(outcome)
    /\ Get(outcome).key = <<"other chain", "analytics-module">>
    /\ Get(outcome).value = Some("other chain")
    /\ isDoingSubmitChanges

\* C23: the handler 'googlekit.AdSenseSettingsConfirmed' is on the hook
\* 'googlekit.SettingsConfirmed' exactly while SettingsEdit is mounted: mounting
\* adds it once, a re-render adds none, unmounting removes it. There is never
\* more than one, and none while the component is not mounted.
C23_FilterWhileMounted ==
    /\ [](filters = IF mounted THEN 1 ELSE 0)
    /\ [][/\ (~mounted /\ mounted') => filters' = filters + 1
          /\ (mounted /\ mounted') => filters' = filters
          /\ (mounted /\ ~mounted') => filters' = 0]_vars

C23_Witness ==
    /\ mounted
    /\ RolledBack(outcome)
    /\ IsDefined(handler)
    /\ filters = 1

C23_WitnessUnmounted ==
    /\ ~mounted
    /\ IsDefined(handler)
    /\ filters = 0
====
